---- MODULE Spec2Model ----
(***************************************************************************)
(* Session / token lifecycle of the CareXpert backend.                     *)
(*                                                                         *)
(* The store is the Prisma user table.  Every request runs in a request    *)
(* slot; each await on the store is one atomic step of the handler, so     *)
(* concurrent requests interleave at every store read and write.           *)
(***************************************************************************)
EXTENDS Integers, FiniteSets, Sequences, TLC

(* ------------------------------ bounds -------------------------------- *)

MaxVersion == 2

\* u1 is the subject under study; a1 is an administrator who signed up
\* through adminSignup and logged in once before the runs start.
Users == {"u1", "a1"}
Subjects == {"u1"}
Procs == {"p1", "p2"}

Roles == {"PATIENT", "DOCTOR", "ADMIN"}

\* The roles requests ask for.
AskedRoles == {"PATIENT", "ADMIN"}

(* ------------------------- strings and tokens ------------------------- *)

NoVer == -1
NoUid == "none"

\* A token payload: which secret signed it, the userId and the tokenVersion
\* it embeds (NoVer: the payload has no tokenVersion field).
NoPayload == [secret |-> "NONE", uid |-> NoUid, ver |-> NoVer]

\* String values held in cookies and in User.refreshToken.
NullStr == [fmt |-> "null", of |-> NoPayload]
EmptyStr == [fmt |-> "empty", of |-> NoPayload]

Jwt(secret, uid, ver) == [fmt |-> "jwt", of |-> [secret |-> secret, uid |-> uid, ver |-> ver]]

generateAccessToken(userId, tokenVersion) == Jwt("ACCESS", userId, tokenVersion)

generateRefreshToken(userId, tokenVersion) == Jwt("REFRESH", userId, tokenVersion)

\* bcrypt.hash(s, 10): a digest string, never the string itself.
BcryptHash(s) == [fmt |-> "bcrypt", of |-> s.of]

\* Variant: the signature is checked against either secret.
JwtVerifiesAnyKey(tok, expired, secret) ==
    tok.fmt = "jwt" /\ tok.of.secret \in {"ACCESS", "REFRESH"} /\ ~expired

\* jwt.verify(token, secret): the payload, or a throw (bad signature, wrong
\* secret, expired).
JwtVerifies(tok, expired, secret) == tok.fmt = "jwt" /\ tok.of.secret = secret /\ ~expired

(* ------------------------------- state -------------------------------- *)

VARIABLES
    db,        \* the user table, with the role profile rows
    req,       \* the request slots: handler position, locals and response
    hist,      \* per user: mints, logouts and soft deletes in store order
    returned,  \* every token sent to a client in a 200 response
    rotated    \* refresh tokens a refreshAccessToken call has answered 200 for

vars == <<db, req, hist, returned, rotated>>

NoRow ==
    [exists |-> FALSE, role |-> "PATIENT", tokenVersion |-> 0,
     refreshToken |-> NullStr, deletedAt |-> FALSE, isEmailVerified |-> FALSE,
     emailVerificationToken |-> NullStr, tokenExpiresAt |-> NullStr,
     patient |-> FALSE, doctor |-> FALSE, admin |-> FALSE]

NoUser == [id |-> NoUid, role |-> "PATIENT"]

IdleReq ==
    [pc |-> "idle", route |-> "none", by |-> "none", uid |-> NoUid, target |-> NoUid,
     newRole |-> "PATIENT", tok |-> NullStr, expired |-> FALSE, pwOk |-> FALSE,
     reqUser |-> NoUser, nextCalled |-> FALSE,
     accessToken |-> NullStr, refreshToken |-> NullStr,
     prof |-> FALSE, raced |-> FALSE, fault |-> "none",
     status |-> 0, msg |-> "", detail |-> FALSE,
     id |-> "", sent |-> 0, writes |-> 0, storeAfterSend |-> FALSE]

(* ------------------------- history of a subject ----------------------- *)

MintEvent(at, rt) == [e |-> "mint", access |-> at, refresh |-> rt]
LogoutEvent == [e |-> "logout", access |-> NullStr, refresh |-> NullStr]
DeleteEvent == [e |-> "delete", access |-> NullStr, refresh |-> NullStr]

Idx(u) == 1..Len(hist[u])

\* Every token generateToken has minted for u.
Minted(u) ==
    UNION {{hist[u][i].access, hist[u][i].refresh} : i \in {j \in Idx(u) : hist[u][j].e = "mint"}}

\* The pair of the latest issuance, when no logout or soft delete followed.
SessionOf(u) ==
    IF hist[u] # <<>> /\ hist[u][Len(hist[u])].e = "mint"
    THEN hist[u][Len(hist[u])]
    ELSE LogoutEvent

\* Tokens minted before an issuance whose pair was returned to the client.
Revoked(u) ==
    UNION {{hist[u][i].access, hist[u][i].refresh} :
             i \in {k \in Idx(u) : /\ hist[u][k].e = "mint"
                                   /\ \E j \in Idx(u) : /\ k < j
                                                        /\ hist[u][j].e = "mint"
                                                        /\ hist[u][j].refresh \in returned}}

\* Tokens minted before a logout took effect.
LoggedOut(u) ==
    UNION {{hist[u][i].access, hist[u][i].refresh} :
             i \in {k \in Idx(u) : /\ hist[u][k].e = "mint"
                                   /\ \E j \in Idx(u) : k < j /\ hist[u][j].e = "logout"}}

\* a1 after adminSignup and one login.
AdminRow ==
    [NoRow EXCEPT !.exists = TRUE, !.role = "ADMIN", !.admin = TRUE, !.tokenVersion = 1,
                  !.refreshToken = BcryptHash(generateRefreshToken("a1", 1))]

AdminPair == MintEvent(generateAccessToken("a1", 1), generateRefreshToken("a1", 1))

Init ==
    /\ db = [u \in Users |-> IF u = "a1" THEN AdminRow ELSE NoRow]
    /\ req = [p \in Procs |-> IdleReq]
    /\ hist = [u \in Users |-> IF u = "a1" THEN <<AdminPair>> ELSE <<>>]
    /\ returned = {AdminPair.access, AdminPair.refresh}
    /\ rotated = {}

\* res.status(s).json(new ApiError(s, m)) / ApiResponse: the request ends.
Respond(r, by, s, m) == [r EXCEPT !.pc = "done", !.by = by, !.status = s, !.msg = m]

\* ApiError(500, m, [err]): the body carries the caught error object.
RespondErr(r, by, s, m) ==
    [r EXCEPT !.pc = "done", !.by = by, !.status = s, !.msg = m, !.detail = TRUE]

\* The slot p holds record r after a step; a request that has sent its
\* response leaves the slot.
Settle(p, r) == req' = [req EXCEPT ![p] = IF r.pc = "done" THEN IdleReq ELSE r]

(* --------------------------- version budget --------------------------- *)

\* Requests in flight that will still increment u's tokenVersion.
Pending(u) ==
    Cardinality({p \in Procs : /\ req[p].uid = u
                               /\ \/ req[p].pc = "lo_update"
                                  \/ req[p].pc = "gen_inc" /\ req[p].route = "login"})

CanIssue(u) == db[u].tokenVersion + Pending(u) < MaxVersion

(* ------------------------- what a client holds ------------------------ *)

\* Tokens a client can put in a cookie or header: the ones it was sent, a
\* token signed with a foreign key, and validly signed tokens whose payload
\* has no tokenVersion field.
Presentable ==
    returned
      \cup {Jwt("BAD", u, NoVer) : u \in Subjects}
      \cup {Jwt(k, u, NoVer) : k \in {"ACCESS", "REFRESH"}, u \in Subjects}
      \cup {NullStr}

\* The requests studied are the subjects' own, and the administrators'
\* calls on the admin routes.
SubjectTokens == {t \in Presentable : t = NullStr \/ t.of.uid \in Subjects}

\* An admin route names a subject, or the caller itself.
Targets(tok) == Subjects \cup (IF tok = NullStr THEN {} ELSE {tok.of.uid})

(* -------------------- isAuthenticated (auth gate) --------------------- *)

\* Variant: the lookup without the deletedAt filter.
GateFindsAny(row) == row.exists

\* prisma.user.findFirst({ where: { id, deletedAt: null } })
GateFinds(row) == row.exists /\ ~row.deletedAt

\* Variant: only a token from the future is turned away.
VersionRejectedNewer(tokVer, userVer) == tokVer # NoVer /\ tokVer > userVer

\* The version test of the gate: TRUE when the request is turned away.
VersionRejected(tokVer, userVer) == tokVer # NoVer /\ tokVer # userVer

\* Variant: the version branch sends its 401 without returning, so the
\* middleware goes on to attach the user and call next().
isAuthenticatedNoReturn(r) ==
    IF r.tok = NullStr
    THEN Respond(r, "isAuthenticated", 401, "Unauthorized request")
    ELSE IF ~JwtVerifies(r.tok, r.expired, "ACCESS")
    THEN RespondErr(r, "isAuthenticated", 500, "error in authenticated")
    ELSE IF ~GateFinds(db[r.tok.of.uid])
    THEN Respond(r, "isAuthenticated", 401, "Account not found or has been deactivated")
    ELSE [(IF VersionRejected(r.tok.of.ver, db[r.tok.of.uid].tokenVersion)
           THEN Respond(r, "isAuthenticated", 401, "Token has been invalidated, please login again")
           ELSE r)
          EXCEPT !.nextCalled = TRUE,
                 !.reqUser = [id |-> r.tok.of.uid, role |-> db[r.tok.of.uid].role]]

\* The request record after isAuthenticated ran on r (r.tok, r.expired).
isAuthenticated(r) ==
    IF r.tok = NullStr
    THEN Respond(r, "isAuthenticated", 401, "Unauthorized request")
    ELSE IF ~JwtVerifies(r.tok, r.expired, "ACCESS")
    THEN RespondErr(r, "isAuthenticated", 500, "error in authenticated")
    ELSE IF ~GateFinds(db[r.tok.of.uid])
    THEN Respond(r, "isAuthenticated", 401, "Account not found or has been deactivated")
    ELSE IF VersionRejected(r.tok.of.ver, db[r.tok.of.uid].tokenVersion)
    THEN Respond(r, "isAuthenticated", 401, "Token has been invalidated, please login again")
    ELSE [r EXCEPT !.nextCalled = TRUE,
                   !.reqUser = [id |-> r.tok.of.uid, role |-> db[r.tok.of.uid].role]]

\* isAdmin middleware behind the gate.
isAdmin(r) ==
    IF r.reqUser.role = "ADMIN" THEN r ELSE Respond(r, "isAdmin", 403, "Admin access required")

NewReq(route, tok, expired) ==
    [IdleReq EXCEPT !.route = route, !.tok = tok, !.expired = expired]

Frame == UNCHANGED <<hist, returned, rotated>>

\* isPatient middleware behind the gate.
isPatient(r) ==
    IF r.reqUser.role = "PATIENT" THEN r ELSE Respond(r, "isPatient", 403, "Patient access required")

\* Express runs the next layer of a route only when the layer before it
\* called next(): the answer of an analytics route to a request.
ProtectedAnswer(tok, expired) ==
    LET g == isAuthenticated(NewReq("protected", tok, expired))
    IN  IF g.nextCalled THEN Respond(g, "handler", 200, "handler") ELSE g

\* The answer of a symptom route: the gate, isPatient, then the handler.
SymptomAnswer(tok, expired) ==
    LET g == isAuthenticated(NewReq("symptom", tok, expired))
        a == IF g.nextCalled THEN isPatient(g) ELSE g
    IN  IF g.nextCalled /\ a.by # "isPatient" THEN Respond(a, "handler", 200, "handler") ELSE a

\* A protected domain route (analytics): the gate, then the handler.
Protected(p, tok, expired) ==
    /\ req[p].pc = "idle"
    /\ Settle(p, ProtectedAnswer(tok, expired))
    /\ UNCHANGED db
    /\ Frame

\* A symptom route.
Symptom(p, tok, expired) ==
    /\ req[p].pc = "idle"
    /\ Settle(p, SymptomAnswer(tok, expired))
    /\ UNCHANGED db
    /\ Frame

(* ------------------------------ signup -------------------------------- *)

\* tx.user.create({ data: { name, email, password, role, profilePicture } })
\* and the profile row: every other column takes its default.
signupData(role) ==
    [NoRow EXCEPT !.exists = TRUE, !.role = role,
                  !.doctor = (role = "DOCTOR"), !.patient = (role # "DOCTOR")]

\* The response of signup: 409 for a taken identity, else the success.
signupAnswer(r, taken) ==
    IF taken
    THEN Respond(r, "signup", 409, "User already exists")
    ELSE Respond(r, "signup", 200, "Signup successful")

signup(p, u, role) ==
    /\ req[p].pc = "idle"
    /\ LET r == [IdleReq EXCEPT !.route = "signup", !.uid = u, !.newRole = role]
       IN  /\ db' = IF db[u].exists THEN db ELSE [db EXCEPT ![u] = signupData(role)]
           /\ Settle(p, signupAnswer(r, db[u].exists))
    /\ Frame

adminSignup(p, u) ==
    /\ req[p].pc = "idle"
    /\ LET r == [IdleReq EXCEPT !.route = "adminSignup", !.uid = u, !.newRole = "ADMIN"]
       IN  IF db[u].exists
           THEN /\ Settle(p, Respond(r, "adminSignup", 409, "User already exists"))
                /\ UNCHANGED db
           ELSE /\ db' = [db EXCEPT ![u] = [NoRow EXCEPT !.exists = TRUE, !.role = "ADMIN",
                                                       !.admin = TRUE]]
                /\ Settle(p, Respond(r, "adminSignup", 200, "Admin signup successful"))
    /\ Frame

(* ------------------------------- login -------------------------------- *)

\* login up to the call of generateToken: findFirst and the checks on the
\* row it returns.
loginChecks(r, row) ==
    IF ~row.exists
    THEN Respond(r, "login", 401, "Invalid username or password")
    ELSE IF row.deletedAt
    THEN Respond(r, "login", 403, "This account has been deactivated")
    ELSE IF ~r.pwOk
    THEN Respond(r, "login", 401, "Invalid username or password")
    ELSE [r EXCEPT !.pc = "gen_inc"]

login(p, u, pwOk) ==
    /\ req[p].pc = "idle"
    /\ LET r == loginChecks([IdleReq EXCEPT !.route = "login", !.uid = u, !.pwOk = pwOk], db[u])
       IN  /\ r.pc = "gen_inc" => CanIssue(u)
           /\ Settle(p, r)
    /\ UNCHANGED db
    /\ Frame

(* --------------------------- generateToken ---------------------------- *)

\* Variant: the update writes the version back unchanged.
IncrementSame(v) == v

\* Variant: a read-modify-write whose second writer computes from the
\* value the first one read.
IncrementLost(v) == IF v >= 1 THEN v ELSE v + 1

\* data: { tokenVersion: { increment: 1 } }
Increment(v) == v + 1

\* Variant: the pair embeds the version read before the increment.
MintVersionStale(updated) == updated - 1

\* The version generateToken embeds in the pair: the one the update returned.
MintVersion(updated) == updated

\* First update of generateToken: bump the version, then mint both tokens.
GenIncrement(p) ==
    /\ req[p].pc = "gen_inc"
    /\ LET u == req[p].uid
           nv == Increment(db[u].tokenVersion)
           at == generateAccessToken(u, MintVersion(nv))
           rt == generateRefreshToken(u, MintVersion(nv))
       IN  /\ db' = [db EXCEPT ![u].tokenVersion = nv]
           /\ req' = [req EXCEPT ![p] = [@ EXCEPT !.pc = "gen_hash",
                                                  !.accessToken = at, !.refreshToken = rt]]
           /\ hist' = [hist EXCEPT ![u] = Append(@, MintEvent(at, rt))]
    /\ UNCHANGED <<returned, rotated>>

\* Second update of generateToken: store the hashed refresh token; the
\* caller (login or refreshAccessToken) then answers 200 with the pair.
GenWriteHash(p) ==
    /\ req[p].pc = "gen_hash"
    /\ LET u == req[p].uid
           r == req[p]
       IN  /\ db' = [db EXCEPT ![u].refreshToken = BcryptHash(r.refreshToken)]
           /\ returned' = returned \cup {r.accessToken, r.refreshToken}
           /\ rotated' = IF r.route = "refresh" THEN rotated \cup {r.tok} ELSE rotated
           /\ Settle(p, IF r.route = "login"
                        THEN Respond(r, "login", 200, "Login successfully")
                        ELSE Respond(r, "refreshAccessToken", 200, "Token refreshed successfully"))
    /\ UNCHANGED hist

(* ------------------------- refreshAccessToken ------------------------- *)

\* Variant: the stored digest is compared with the digest of the cookie.
StoredMatchesDigest(stored, incoming) == stored = BcryptHash(incoming)

\* Variant: the revocation test is left out.
StoredMatchesAny(stored, incoming) == TRUE

\* user.refreshToken !== incomingRefreshToken, negated.
StoredMatches(stored, incoming) == stored = incoming

\* Another refreshAccessToken request with the same token is in flight.
Racing(p, tok) ==
    {q \in Procs \ {p} : req[q].route = "refresh" /\ req[q].pc # "idle" /\ req[q].tok = tok}

\* No request of u that touches the session is in flight besides p.
Alone(p, u) ==
    \A q \in Procs \ {p} :
        req[q].pc = "idle" \/ req[q].uid # u \/ req[q].route \notin {"login", "refresh", "logout"}

\* The synchronous head of refreshAccessToken: read the cookie, jwt.verify,
\* payload shape.
refreshHead(r) ==
    IF r.tok = NullStr
    THEN Respond(r, "refreshAccessToken", 401, "Refresh token is required")
    ELSE IF ~JwtVerifies(r.tok, r.expired, "REFRESH")
    THEN Respond(r, "refreshAccessToken", 401, "Invalid or expired refresh token")
    ELSE IF r.tok.of.ver = NoVer
    THEN Respond(r, "refreshAccessToken", 401, "Invalid token payload")
    ELSE [r EXCEPT !.pc = "rf_find", !.uid = r.tok.of.uid]

\* Variant: the revocation branch sends its 401 without returning, and the
\* handler goes on to rotate.
refreshChecksNoReturn(r, row) ==
    IF ~row.exists
    THEN Respond(r, "refreshAccessToken", 401, "User not found")
    ELSE IF ~StoredMatches(row.refreshToken, r.tok)
    THEN [Respond(r, "refreshAccessToken", 401, "Refresh token has been revoked")
             EXCEPT !.pc = "gen_inc"]
    ELSE IF r.tok.of.ver # row.tokenVersion
    THEN Respond(r, "refreshAccessToken", 401, "Token version mismatch, please login again")
    ELSE [r EXCEPT !.pc = "gen_inc"]

\* The checks on the row findUnique returned.
refreshChecks(r, row) ==
    IF ~row.exists
    THEN Respond(r, "refreshAccessToken", 401, "User not found")
    ELSE IF ~StoredMatches(row.refreshToken, r.tok)
    THEN Respond(r, "refreshAccessToken", 401, "Refresh token has been revoked")
    ELSE IF r.tok.of.ver # row.tokenVersion
    THEN Respond(r, "refreshAccessToken", 401, "Token version mismatch, please login again")
    ELSE [r EXCEPT !.pc = "gen_inc"]

refreshAccessToken(p, tok, expired) ==
    /\ req[p].pc = "idle"
    /\ LET r == refreshHead(NewReq("refresh", tok, expired))
       IN  IF r.pc = "done"
           THEN Settle(p, r)
           ELSE req' = [q \in Procs |->
                          IF q = p THEN [r EXCEPT !.raced = (Racing(p, tok) # {})]
                          ELSE IF q \in Racing(p, tok) THEN [req[q] EXCEPT !.raced = TRUE]
                          ELSE req[q]]
    /\ UNCHANGED db
    /\ Frame

\* findUnique and the revocation and version checks.
RefreshFind(p) ==
    /\ req[p].pc = "rf_find"
    /\ LET r == refreshChecks(req[p], db[req[p].uid])
       IN  /\ r.pc = "gen_inc" => db[req[p].uid].tokenVersion <= MaxVersion
           /\ Settle(p, r)
    /\ UNCHANGED db
    /\ Frame

(* ------------------------------- logout ------------------------------- *)

\* The gate in front of logout.
logout(p, tok, expired) ==
    /\ req[p].pc = "idle"
    /\ LET g == isAuthenticated(NewReq("logout", tok, expired))
       IN  IF ~g.nextCalled
           THEN Settle(p, g)
           ELSE /\ CanIssue(g.reqUser.id)
                /\ Settle(p, [g EXCEPT !.pc = "lo_update", !.uid = g.reqUser.id])
    /\ UNCHANGED db
    /\ Frame

\* Variant: logout clears the stored token and leaves the version alone.
LogoutDataKeepVersion(row) == [row EXCEPT !.refreshToken = EmptyStr]

\* data: { refreshToken: "", tokenVersion: { increment: 1 } }
LogoutData(row) == [row EXCEPT !.refreshToken = EmptyStr, !.tokenVersion = Increment(row.tokenVersion)]

LogoutUpdate(p) ==
    /\ req[p].pc = "lo_update"
    /\ LET u == req[p].uid
       IN  /\ db' = [db EXCEPT ![u] = LogoutData(db[u])]
           /\ hist' = [hist EXCEPT ![u] = Append(@, LogoutEvent)]
           /\ Settle(p, Respond(req[p], "logout", 200, "Logout successfully"))
    /\ UNCHANGED <<returned, rotated>>

(* ---------------------------- admin routes ---------------------------- *)

\* Variant: the self test is left out.
IsSelfNever(userId, adminUserId) == FALSE

\* userId === adminUserId
IsSelf(userId, adminUserId) == userId = adminUserId

\* softDeleteUser behind isAuthenticated and isAdmin, up to its first store
\* call: the record of the request after the self test.
softDeleteEntry(tok, expired, target) ==
    LET g == isAuthenticated([NewReq("softDelete", tok, expired) EXCEPT !.target = target])
        a == IF g.nextCalled THEN isAdmin(g) ELSE g
    IN  IF ~g.nextCalled \/ a.by = "isAdmin"
        THEN a
        ELSE IF IsSelf(target, a.reqUser.id)
        THEN Respond(a, "softDeleteUser", 400, "Cannot delete your own account")
        ELSE [a EXCEPT !.pc = "sd_find"]

softDeleteUser(p, tok, expired, target) ==
    /\ req[p].pc = "idle"
    /\ Settle(p, softDeleteEntry(tok, expired, target))
    /\ UNCHANGED db
    /\ Frame

SoftDeleteFind(p) ==
    /\ req[p].pc = "sd_find"
    /\ LET row == db[req[p].target]
       IN  IF ~row.exists
           THEN Settle(p, Respond(req[p], "softDeleteUser", 404, "User not found"))
           ELSE IF row.deletedAt
           THEN Settle(p, Respond(req[p], "softDeleteUser", 400, "User is already deleted"))
           ELSE Settle(p, [req[p] EXCEPT !.pc = "sd_update"])
    /\ UNCHANGED db
    /\ Frame

SoftDeleteUpdate(p) ==
    /\ req[p].pc = "sd_update"
    /\ db' = [db EXCEPT ![req[p].target].deletedAt = TRUE]
    /\ hist' = [hist EXCEPT ![req[p].target] = Append(@, DeleteEvent)]
    /\ Settle(p, Respond(req[p], "softDeleteUser", 200, "User soft deleted successfully"))
    /\ UNCHANGED <<returned, rotated>>

HasProfile(row, role) ==
    CASE role = "DOCTOR" -> row.doctor
      [] role = "PATIENT" -> row.patient
      [] OTHER -> row.admin

WithProfile(row, role) ==
    CASE role = "DOCTOR" -> [row EXCEPT !.doctor = TRUE]
      [] role = "PATIENT" -> [row EXCEPT !.patient = TRUE]
      [] OTHER -> [row EXCEPT !.admin = TRUE]

\* changeUserRole behind isAuthenticated and isAdmin, up to its first store
\* call: the record of the request after the self test.
changeRoleEntry(tok, expired, target, role) ==
    LET g == isAuthenticated([NewReq("changeRole", tok, expired) EXCEPT
                                 !.target = target, !.newRole = role])
        a == IF g.nextCalled THEN isAdmin(g) ELSE g
    IN  IF ~g.nextCalled \/ a.by = "isAdmin"
        THEN a
        ELSE IF IsSelf(target, a.reqUser.id)
        THEN Respond(a, "changeUserRole", 400, "Cannot change your own role")
        ELSE [a EXCEPT !.pc = "cr_find"]

changeUserRole(p, tok, expired, target, role) ==
    /\ req[p].pc = "idle"
    /\ Settle(p, changeRoleEntry(tok, expired, target, role))
    /\ UNCHANGED db
    /\ Frame

ChangeRoleFind(p) ==
    /\ req[p].pc = "cr_find"
    /\ LET row == db[req[p].target]
       IN  IF ~(row.exists /\ ~row.deletedAt)
           THEN Settle(p, Respond(req[p], "changeUserRole", 404, "User not found"))
           ELSE IF row.role = req[p].newRole
           THEN Settle(p, Respond(req[p], "changeUserRole", 400, "User already has the role"))
           ELSE Settle(p, [req[p] EXCEPT !.pc = "cr_tx",
                                         !.prof = HasProfile(row, req[p].newRole)])
    /\ UNCHANGED db
    /\ Frame

\* The transaction: set the role and create the missing profile row; a
\* profile row created meanwhile makes the create fail and rolls back.
ChangeRoleTx(p) ==
    /\ req[p].pc = "cr_tx"
    /\ LET t == req[p].target
           role == req[p].newRole
       IN  IF ~req[p].prof /\ HasProfile(db[t], role)
           THEN /\ Settle(p, RespondErr(req[p], "changeUserRole", 500, "Failed to change user role"))
                /\ UNCHANGED db
           ELSE /\ db' = [db EXCEPT ![t] = WithProfile([db[t] EXCEPT !.role = role], role)]
                /\ Settle(p, Respond(req[p], "changeUserRole", 200, "User role updated successfully"))
    /\ Frame

(* --------------------------- store failures --------------------------- *)

\* The outer catch of the handler the request runs in: login and logout
\* answer a bare ApiError(500, message), refreshAccessToken puts the
\* caught error in the body.
Caught(r) ==
    IF r.route = "login"
    THEN Respond(r, "login", 500, "Internal server error")
    ELSE IF r.route = "logout"
    THEN Respond(r, "logout", 500, "internal server error")
    ELSE RespondErr(r, "refreshAccessToken", 500, "Internal server error")

\* generateToken ends in its catch: one of its two updates, or bcrypt.hash,
\* threw; it throws ApiError(500, "Error in generating token") and the
\* caller's catch answers.  Nothing is undone.
GenerateTokenFails(p) ==
    /\ req[p].pc \in {"gen_inc", "gen_hash"}
    /\ Settle(p, Caught(req[p]))
    /\ UNCHANGED db
    /\ Frame

\* The store call of logout, or the findUnique of refreshAccessToken, throws.
StoreFails(p) ==
    /\ req[p].pc \in {"lo_update", "rf_find"}
    /\ Settle(p, Caught(req[p]))
    /\ UNCHANGED db
    /\ Frame

(* ---------------------------- specification --------------------------- *)

Next ==
    \E p \in Procs :
        \/ \E u \in Subjects, role \in AskedRoles : signup(p, u, role)
        \/ \E u \in Users : adminSignup(p, u)
        \/ \E u \in Subjects, pwOk \in BOOLEAN : login(p, u, pwOk)
        \/ GenIncrement(p)
        \/ GenWriteHash(p)
        \/ \E tok \in SubjectTokens, expired \in BOOLEAN :
              \/ Protected(p, tok, expired)
              \/ Symptom(p, tok, expired)
              \/ refreshAccessToken(p, tok, expired)
              \/ logout(p, tok, expired)
        \/ \E tok \in Presentable, expired \in BOOLEAN :
              \E target \in Targets(tok) :
                    \/ softDeleteUser(p, tok, expired, target)
                    \/ \E role \in AskedRoles : changeUserRole(p, tok, expired, target, role)
        \/ RefreshFind(p)
        \/ LogoutUpdate(p)
        \/ SoftDeleteFind(p)
        \/ SoftDeleteUpdate(p)
        \/ ChangeRoleFind(p)
        \/ ChangeRoleTx(p)
        \/ GenerateTokenFails(p)
        \/ StoreFails(p)

Spec == Init /\ [][Next]_vars

(* ---------------------------- email service --------------------------- *)

\* The two mail functions, and where a call can fail: in createTransporter
\* or in transporter.sendMail.
MailFns == {"sendVerificationEmail", "sendWelcomeEmail"}
MailFaults == {"none", "createTransporter", "sendMail"}

\* Variant: both catch blocks rethrow.
RethrowsAlways(fn) == TRUE

\* The catch block of fn ends in throw new ApiError(500, ...).
Rethrows(fn) == fn = "sendVerificationEmail"

\* A caller awaits fn(email, name, ...).
MailCall(p, fn, fault) ==
    /\ req[p].pc = "idle"
    /\ req' = [req EXCEPT ![p] = [IdleReq EXCEPT !.pc = "mail_try", !.route = fn, !.fault = fault]]
    /\ UNCHANGED db
    /\ Frame

\* try { const transporter = createTransporter(); ... }
MailTransporter(p) ==
    /\ req[p].pc = "mail_try"
    /\ req' = [req EXCEPT ![p].pc = IF req[p].fault = "createTransporter"
                                    THEN "mail_catch" ELSE "mail_send"]
    /\ UNCHANGED db
    /\ Frame

\* await transporter.sendMail({...})
MailSend(p) ==
    /\ req[p].pc = "mail_send"
    /\ req' = [req EXCEPT ![p].pc = IF req[p].fault = "sendMail" THEN "mail_catch" ELSE "mail_ret"]
    /\ UNCHANGED db
    /\ Frame

\* catch (error) { console.error(...); [throw new ApiError(500, ...)] }
MailCatch(p) ==
    /\ req[p].pc = "mail_catch"
    /\ req' = [req EXCEPT ![p] =
                 IF Rethrows(req[p].route)
                 THEN [req[p] EXCEPT !.pc = "mail_threw", !.by = req[p].route, !.status = 500,
                                     !.msg = "Failed to send verification email"]
                 ELSE [req[p] EXCEPT !.pc = "mail_ret"]]
    /\ UNCHANGED db
    /\ Frame

\* The caller takes the resolved promise, or the rejection, and goes on.
MailCaller(p) ==
    /\ req[p].pc \in {"mail_ret", "mail_threw"}
    /\ req' = [req EXCEPT ![p] = IdleReq]
    /\ UNCHANGED db
    /\ Frame

MailNext ==
    \E p \in Procs :
        \/ \E fn \in MailFns, fault \in MailFaults : MailCall(p, fn, fault)
        \/ MailTransporter(p)
        \/ MailSend(p)
        \/ MailCatch(p)
        \/ MailCaller(p)

\* The mail functions under every caller and every transport outcome.
MailSpec == Init /\ [][MailNext]_vars

(* --------------------------- profile handlers ------------------------- *)

\* doctorProfile and userProfile, the id parameters a client can send, and
\* the outcomes of findUnique.
ProfileFns == {"doctorProfile", "userProfile"}
ProfileIds == {"", "not-a-uuid", "uuid"}
ProfileFaults == {"none", "findUnique"}

\* isValidUUID of utils/helper.
isValidUUID(id) == id = "uuid"

\* res.status(s).json(body): the first call of a request sends the response;
\* a later call throws, the headers being sent (Threw).
CanWrite(r) == r.sent = 0

Write(r, s, m) ==
    [r EXCEPT !.sent = 1, !.writes = r.writes + 1, !.status = s, !.msg = m]

Threw(r) == [r EXCEPT !.writes = r.writes + 1]

\* const { id } = req.params; if (!id || !isValidUUID(id)) { res.status(400)... }
\* The branch has no return: the handler goes on to findUnique.
profileEntry(fn, id, fault) ==
    LET r == [IdleReq EXCEPT !.route = fn, !.id = id, !.fault = fault]
    IN  IF id = "" \/ ~isValidUUID(id)
        THEN [Write(r, 400, IF fn = "doctorProfile" THEN "Doctor id not found"
                                                     ELSE "patient id no valid")
                 EXCEPT !.pc = "pf_find"]
        ELSE [r EXCEPT !.pc = "pf_find"]

ProfileCall(p, fn, id, fault) ==
    /\ req[p].pc = "idle"
    /\ req' = [req EXCEPT ![p] = profileEntry(fn, id, fault)]
    /\ UNCHANGED db
    /\ Frame

\* await prisma.doctor.findUnique / prisma.patient.findUnique
ProfileFind(p) ==
    /\ req[p].pc = "pf_find"
    /\ req' = [req EXCEPT ![p] =
                 [req[p] EXCEPT !.pc = IF req[p].fault = "findUnique" THEN "pf_catch" ELSE "pf_ok",
                                !.storeAfterSend = (req[p].sent > 0)]]
    /\ UNCHANGED db
    /\ Frame

\* res.status(200).json(new ApiResponse(200, doctor))
ProfileOk(p) ==
    /\ req[p].pc = "pf_ok"
    /\ req' = [req EXCEPT ![p] =
                 IF CanWrite(req[p])
                 THEN [Write(req[p], 200, "profile") EXCEPT !.pc = "pf_end"]
                 ELSE [Threw(req[p]) EXCEPT !.pc = "pf_catch"]]
    /\ UNCHANGED db
    /\ Frame

\* catch (error) { res.status(500).json(new ApiError(500, ..., [error])); return; }
\* A throw inside the catch block rejects the handler's promise.
ProfileCatch(p) ==
    /\ req[p].pc = "pf_catch"
    /\ req' = [req EXCEPT ![p] =
                 IF CanWrite(req[p])
                 THEN [Write(req[p], 500, "internal server error")
                          EXCEPT !.pc = "pf_end", !.detail = TRUE]
                 ELSE [Threw(req[p]) EXCEPT !.pc = "pf_end"]]
    /\ UNCHANGED db
    /\ Frame

\* The handler is over and the connection is free for the next request.
ProfileEnd(p) ==
    /\ req[p].pc = "pf_end"
    /\ req' = [req EXCEPT ![p] = IdleReq]
    /\ UNCHANGED db
    /\ Frame

ProfileNext ==
    \E p \in Procs :
        \/ \E fn \in ProfileFns, id \in ProfileIds, fault \in ProfileFaults :
              ProfileCall(p, fn, id, fault)
        \/ ProfileFind(p)
        \/ ProfileOk(p)
        \/ ProfileCatch(p)
        \/ ProfileEnd(p)

\* The profile handlers under every id parameter and every store outcome.
ProfileSpec == Init /\ [][ProfileNext]_vars


(* ============================== properties ============================ *)

\* Every token a request could carry for u, whatever its signature and version.
TokenUniverse(u) ==
    {Jwt(k, u, v) : k \in {"ACCESS", "REFRESH", "BAD"}, v \in {NoVer} \cup (0..(MaxVersion + 2))}

\* The gate's answer to a request carrying tok.
Gate(tok, expired) == isAuthenticated(NewReq("protected", tok, expired))

GateRejects(tok) == \A expired \in BOOLEAN : ~Gate(tok, expired).nextCalled

\* refreshAccessToken's answer to tok up to the call of generateToken.
RefreshAnswer(tok, expired) ==
    LET h == refreshHead(NewReq("refresh", tok, expired))
    IN  IF h.pc = "done" THEN h ELSE refreshChecks(h, db[h.uid])

RefreshRejects(tok) ==
    \A expired \in BOOLEAN :
        RefreshAnswer(tok, expired).pc = "done" /\ RefreshAnswer(tok, expired).status = 401

\* C1 (premise): the token p presents is the refresh token of the subject's latest pair,
\* that pair was returned, no logout or soft delete followed it, and no
\* other login, refresh or logout of the subject is in flight.
PresentsCurrent(p) ==
    LET u == req[p].uid
    IN  /\ db[u].exists /\ ~db[u].deletedAt
        /\ req[p].tok \in returned
        /\ SessionOf(u).refresh = req[p].tok
        /\ db[u].refreshToken = BcryptHash(req[p].tok)
        /\ Alone(p, u)


\* C1: a refresh presenting the refresh token of the subject's latest
\* returned pair, with nothing of the subject in between, passes the checks
\* and goes on to rotate (answers 200 with a new pair).
C1_CurrentRefreshTokenIsAccepted ==
    \A p \in Procs :
        (req[p].pc = "rf_find" /\ PresentsCurrent(p))
            => refreshChecks(req[p], db[req[p].uid]).pc = "gen_inc"

\* C3: of the refresh requests presenting one token, at most one passes the
\* checks and answers 200; none passes once that token was rotated.
C3_OneRefreshPerToken ==
    \A p \in Procs :
        (req[p].route = "refresh" /\ req[p].pc \in {"gen_inc", "gen_hash"})
            => /\ req[p].tok \notin rotated
               /\ \A q \in Procs \ {p} :
                    ~(/\ req[q].route = "refresh"
                      /\ req[q].pc \in {"gen_inc", "gen_hash"}
                      /\ req[q].tok = req[p].tok)

\* C3 witness: two refresh requests arrived with the session's refresh
\* token; one has read the store and was answered, the other is about to.
C3_Witness ==
    \E p \in Procs :
        /\ req[p].pc = "rf_find" /\ req[p].raced
        /\ req[p].tok \in returned
        /\ SessionOf(req[p].uid).refresh = req[p].tok
        /\ \A q \in Procs \ {p} : req[q].pc = "idle"
        /\ rotated = {}

\* generateToken of q sits between its two updates and the row of u still
\* holds the digest of an earlier pair.
Torn(q, u) ==
    /\ req[q].pc = "gen_hash" /\ req[q].uid = u
    /\ db[u].refreshToken.fmt = "bcrypt"
    /\ db[u].refreshToken.of.ver < db[u].tokenVersion

\* p reads the row of u in this step (refreshAccessToken's findUnique, or
\* login's findFirst).
ReadsRow(p, u) ==
    \/ req[p].pc = "rf_find" /\ req[p].uid = u /\ req'[p].pc # "rf_find"
    \/ req[p].pc = "idle" /\ req'[p].route = "login" /\ req'[p].uid = u

\* C4: no request reads a row whose tokenVersion is already the new value
\* while the stored digest is still the previous session's.
C4_IssuePairIsAtomic ==
    [][\A p \in Procs, u \in Users :
          ReadsRow(p, u) => ~(\E q \in Procs \ {p} : Torn(q, u))]_vars

\* C5: once an issuance has returned its pair, every token minted for the
\* subject before it is turned away by the gate and by refreshAccessToken.
C5_IssuanceRevokesEarlierTokens ==
    \A u \in Users : \A t \in Revoked(u) : GateRejects(t) /\ RefreshRejects(t)

\* C5 witness: a client holds an access token of an earlier login, a later
\* login has returned, and the gate answers 401 to the earlier token.
C5_Witness ==
    \E u \in Subjects : \E t \in Revoked(u) \cap returned :
        /\ t.of.secret = "ACCESS"
        /\ Gate(t, FALSE).status = 401
        /\ SessionOf(u).access \in returned

\* C6: the gate calls next() only for a token whose embedded tokenVersion
\* equals the subject's current tokenVersion.
C6_GatePassesOnlyMatchingVersion ==
    \A t \in Presentable \ {NullStr} : \A expired \in BOOLEAN :
        Gate(t, expired).nextCalled => t.of.ver = db[t.of.uid].tokenVersion

\* p's logout update takes effect in this step.
LogoutStep(p) ==
    /\ req[p].pc = "lo_update" /\ req'[p].pc = "idle"
    /\ hist'[req[p].uid] = Append(hist[req[p].uid], LogoutEvent)

HoldsFreshLogin(u) ==
    /\ SessionOf(u).e = "mint"
    /\ SessionOf(u).access \in returned
    /\ ~db[u].deletedAt

\* C8: the gate lets the access token of the latest login through and
\* attaches the subject's id and stored role.
C8_LoginThenAuthenticate ==
    \A u \in Users :
        HoldsFreshLogin(u)
            => LET g == Gate(SessionOf(u).access, FALSE)
               IN  /\ g.nextCalled
                   /\ g.reqUser.id = u
                   /\ g.reqUser.role = db[u].role

\* C8 witness: a subject signed up, logged in, and holds the returned pair.
C8_Witness ==
    \E u \in Subjects :
        /\ HoldsFreshLogin(u)
        /\ Gate(SessionOf(u).access, FALSE).nextCalled
        /\ \A p \in Procs : req[p].pc = "idle"

\* C9: login of a subject whose email is not verified answers 403 and no
\* pair is ever minted for it.
C9_UnverifiedLoginIsRefused ==
    \A u \in Subjects :
        (db[u].exists /\ ~db[u].isEmailVerified)
            => /\ loginChecks([IdleReq EXCEPT !.route = "login", !.uid = u, !.pwOk = TRUE],
                              db[u]).status = 403
               /\ Minted(u) = {}

\* C10: the gate never calls next() for a token of a soft-deleted subject,
\* whatever its signature, expiry and version, and deletedAt stays set.
C10_SoftDeletedStaysLockedOut ==
    /\ [](\A u \in Users : db[u].deletedAt => \A t \in TokenUniverse(u) : GateRejects(t))
    /\ [][\A u \in Users : db[u].deletedAt => db'[u].deletedAt]_vars

\* C10 witness: a soft-deleted subject holds a returned access token of the
\* current version, and the gate answers 401 to it.
C10_Witness ==
    \E u \in Subjects : \E t \in returned :
        /\ db[u].deletedAt
        /\ t.of.uid = u /\ t.of.secret = "ACCESS" /\ t.of.ver = db[u].tokenVersion
        /\ Gate(t, FALSE).status = 401

\* p, a login or refreshAccessToken request of u, takes a step.
SessionStep(p, u) ==
    /\ req[p].route \in {"login", "refresh"}
    /\ req[p].uid = u
    /\ req'[p] # req[p]

\* C11: while a subject's deletedAt is set, no step of a login or of a
\* refreshAccessToken request returns a token pair, and none changes the
\* subject's tokenVersion or its stored refresh token.
C11_DeletedSubjectGetsNoSession ==
    [][\A p \in Procs, u \in Users :
          (db[u].deletedAt /\ SessionStep(p, u))
              => /\ db'[u].tokenVersion = db[u].tokenVersion
                 /\ db'[u].refreshToken = db[u].refreshToken
                 /\ returned' = returned]_vars

\* p's generateToken increment, or p's logout update, takes effect in this
\* step.
BumpStep(p) ==
    /\ req[p].pc \in {"gen_inc", "lo_update"} /\ req'[p] # req[p]
    /\ hist'[req[p].uid] # hist[req[p].uid]

\* C12: no step lowers a subject's tokenVersion; the increment of every
\* login and refresh issuance and every logout update raises it strictly;
\* and a pair is returned with 200 only by a request that went through
\* that increment.
C12_TokenVersionIsMonotone ==
    [][/\ \A u \in Users : db'[u].tokenVersion >= db[u].tokenVersion
       /\ \A p \in Procs :
            /\ BumpStep(p) => db'[req[p].uid].tokenVersion > db[req[p].uid].tokenVersion
            /\ (req'[p].pc = "gen_hash" /\ req[p].pc # "gen_hash") => req[p].pc = "gen_inc"
       /\ returned' # returned => \E p \in Procs : req[p].pc = "gen_hash" /\ req'[p].pc = "idle"]_vars

\* C12 witness: a subject logged in and logged out; its version went from
\* 0 to the version of the returned pair and then above it.
C12_Witness ==
    \E u \in Subjects :
        /\ Len(hist[u]) = 2
        /\ hist[u][1].e = "mint" /\ hist[u][2].e = "logout"
        /\ hist[u][1].refresh \in returned
        /\ hist[u][1].refresh.of.ver > 0
        /\ db[u].tokenVersion > hist[u][1].refresh.of.ver

\* The refresh tokens refreshAccessToken would go on to rotate for u now.
Accepted(u) ==
    {t \in TokenUniverse(u) \cup Minted(u) :
        RefreshAnswer(t, FALSE).pc = "gen_inc"}

\* C13: in every state refreshAccessToken would accept at most one refresh
\* token per subject, and never a minted one other than the one whose
\* digest is stored: a new issuance makes the previous one unacceptable.
C13_AtMostOneValidRefreshToken ==
    \A u \in Users :
        /\ Cardinality(Accepted(u)) <= 1
        /\ \A t \in Minted(u) : db[u].refreshToken # BcryptHash(t) => t \notin Accepted(u)

\* C13 witness: two logins of a subject have returned; the digest of the
\* second refresh token is stored and the first one is answered 401.
C13_Witness ==
    \E u \in Subjects :
        /\ Len(hist[u]) = 2
        /\ hist[u][1].e = "mint" /\ hist[u][2].e = "mint"
        /\ {hist[u][1].refresh, hist[u][2].refresh} \subseteq returned
        /\ db[u].refreshToken = BcryptHash(hist[u][2].refresh)
        /\ RefreshAnswer(hist[u][1].refresh, FALSE).status = 401
        /\ hist[u][1].refresh \notin Accepted(u)

\* C14: for every subject and every version, the gate never calls next()
\* for a refresh token, and refreshAccessToken answers an access token with
\* 401 and never goes on to issue a pair.
C14_TokenKindsNotInterchangeable ==
    \A u \in Users : \A v \in 0..(MaxVersion + 1) :
        /\ GateRejects(generateRefreshToken(u, v))
        /\ RefreshRejects(generateAccessToken(u, v))

\* C14 witness: a subject holds the returned pair of its current version;
\* the gate lets the access token through and turns the refresh token
\* away, and refreshAccessToken answers the access token with 401.
C14_Witness ==
    \E u \in Subjects :
        /\ HoldsFreshLogin(u)
        /\ SessionOf(u).refresh \in returned
        /\ SessionOf(u).refresh.of.ver = db[u].tokenVersion
        /\ Gate(SessionOf(u).access, FALSE).nextCalled
        /\ ~Gate(SessionOf(u).refresh, FALSE).nextCalled
        /\ RefreshAnswer(SessionOf(u).access, FALSE).msg = "Invalid or expired refresh token"

\* C15: the gate answers a request whose access token does not verify
\* (malformed, signed with another key, or expired) with status 401, and
\* does not call next().
C15_BadTokenGets401AtGate ==
    \A t \in Presentable \ {NullStr} : \A expired \in BOOLEAN :
        ~JwtVerifies(t, expired, "ACCESS")
            => /\ Gate(t, expired).status = 401
               /\ ~Gate(t, expired).nextCalled

\* What the caller can tell apart: the status and the message.
Outcome(r) == <<r.status, r.msg>>

\* The cause of a rejection, by the taxonomy: a token that is not a validly
\* signed token of the kind asked for, or whose payload lacks the version,
\* is Malformed; a validly signed one
\* past its expiry is Expired; then the subject is absent, the refresh
\* token is revoked, or the version is stale.
Cause(kind, tok, expired) ==
    IF tok.fmt # "jwt" \/ tok.of.secret # kind \/ tok.of.ver = NoVer THEN "Malformed"
    ELSE IF expired THEN "Expired"
    ELSE IF ~db[tok.of.uid].exists THEN "NotFound"
    ELSE IF kind = "REFRESH" /\ ~StoredMatches(db[tok.of.uid].refreshToken, tok) THEN "Revoked"
    ELSE IF tok.of.ver # db[tok.of.uid].tokenVersion THEN "VersionMismatch"
    ELSE "none"

\* The answer of the operation that takes tokens of the kind.
AnswerTo(kind, tok, expired) ==
    IF kind = "ACCESS" THEN Gate(tok, expired) ELSE RefreshAnswer(tok, expired)

\* The tokens a request may carry, with and without expiry.
Carried == (UNION {TokenUniverse(u) : u \in Subjects}) \X BOOLEAN

\* C16: isAuthenticated and refreshAccessToken answer two rejections of
\* different causes (Malformed, Expired, VersionMismatch, Revoked, absent
\* subject) with different outcomes, and answer Malformed and Expired with
\* neither the authorization-failure status 403 nor the internal-error
\* status 500.
C16_DistinctRejectionCauses ==
    \A kind \in {"ACCESS", "REFRESH"} : \A a \in Carried :
        LET ca == Cause(kind, a[1], a[2])
            ra == AnswerTo(kind, a[1], a[2])
        IN  /\ ca \in {"Malformed", "Expired"} => ra.status \notin {403, 500}
            /\ \A b \in Carried :
                 LET cb == Cause(kind, b[1], b[2])
                 IN  (ca # "none" /\ cb # "none" /\ ca # cb)
                        => Outcome(ra) # Outcome(AnswerTo(kind, b[1], b[2]))

\* signup creates the row of u in this step (adminSignup creates the admin
\* profile with it, signup never does).
SignupCreates(u) == ~db[u].exists /\ db'[u].exists /\ ~db'[u].admin

\* C20: every successful signup creates the subject unverified, with a
\* pending emailVerificationToken and a tokenExpiresAt (24 hours after
\* creation), and answers 201.
C20_SignupCreatesPendingSubject ==
    [][\A u \in Subjects :
          SignupCreates(u)
              => /\ ~db'[u].isEmailVerified
                 /\ db'[u].emailVerificationToken # NullStr
                 /\ db'[u].tokenExpiresAt # NullStr
                 /\ signupAnswer(IdleReq, FALSE).status = 201]_vars

\* The positions of a request inside an admin handler.
HandlerPcs == {"sd_find", "sd_update", "cr_find", "cr_tx"}

\* The gate sent no response for the request carrying tok and called next().
GatePassed(route, tok, expired) ==
    LET g == isAuthenticated(NewReq(route, tok, expired))
    IN  g.nextCalled /\ g.status = 0

\* C21: on the admin, symptom and analytics routes the handler runs only
\* for a request for which isAuthenticated called next() and sent no
\* rejection: a request inside an admin handler carries the gate's
\* next() and no response, a request enters a handler only in a step in
\* which the gate passes it, and the analytics and symptom handlers
\* answer only requests the gate passed.
C21_GateBeforeHandlers ==
    /\ [](\A p \in Procs :
            req[p].pc \in HandlerPcs
                => /\ req[p].nextCalled /\ req[p].status = 0
                   /\ req[p].reqUser.id = req[p].tok.of.uid)
    /\ [](\A tok \in Presentable : \A expired \in BOOLEAN :
            /\ ProtectedAnswer(tok, expired).by = "handler" => GatePassed("protected", tok, expired)
            /\ SymptomAnswer(tok, expired).by = "handler" => GatePassed("symptom", tok, expired))
    /\ [][\A p \in Procs :
            (req[p].pc = "idle" /\ req'[p].pc \in HandlerPcs)
                => GatePassed(req'[p].route, req'[p].tok, req'[p].expired)]_vars

\* C21 witness: an administrator's soft delete is inside its handler, about
\* to write, while a token the gate rejects is answered by the gate and not
\* by the analytics handler.
C21_Witness ==
    \E p \in Procs : \E tok \in returned :
        /\ req[p].pc = "sd_update" /\ req[p].nextCalled
        /\ tok.of.secret = "ACCESS"
        /\ ~Gate(tok, FALSE).nextCalled
        /\ ProtectedAnswer(tok, FALSE).by = "isAuthenticated"

\* C22: sendWelcomeEmail never ends in a throw, whatever fails inside it;
\* sendVerificationEmail returns normally only when nothing failed, and
\* every failure inside it reaches the caller as ApiError 500 "Failed to
\* send verification email".
C22_MailFailurePropagation ==
    /\ [](\A p \in Procs :
            /\ req[p].route = "sendWelcomeEmail" => req[p].pc # "mail_threw"
            /\ (req[p].route = "sendVerificationEmail" /\ req[p].pc = "mail_ret")
                   => req[p].fault = "none"
            /\ req[p].pc = "mail_threw"
                   => req[p].status = 500 /\ req[p].msg = "Failed to send verification email")
    /\ [][\A p \in Procs :
            (req[p].pc = "mail_catch" /\ req'[p].pc # "mail_catch")
                => req'[p].pc = (IF req[p].route = "sendVerificationEmail"
                                 THEN "mail_threw" ELSE "mail_ret")]_vars

\* C22 witness: one caller got a normal return from sendWelcomeEmail whose
\* sendMail failed, another got the ApiError from sendVerificationEmail.
C22_Witness ==
    \E p, q \in Procs :
        /\ req[p].route = "sendWelcomeEmail" /\ req[p].fault = "sendMail" /\ req[p].pc = "mail_ret"
        /\ req[q].route = "sendVerificationEmail" /\ req[q].fault = "sendMail"
        /\ req[q].pc = "mail_threw" /\ req[q].status = 500

\* The positions at which a store call of login, logout or
\* refreshAccessToken can throw.
FailPcs == {"gen_inc", "gen_hash", "lo_update", "rf_find"}

\* C23: no 500 response of login, logout, refreshAccessToken or
\* isAuthenticated, sent after a store or token failure, carries the caught
\* error object in its body.
C23_NoInternalDetailIn500 ==
    /\ \A tok \in Presentable : \A expired \in BOOLEAN :
           Gate(tok, expired).status = 500 => ~Gate(tok, expired).detail
    /\ \A p \in Procs :
           req[p].pc \in FailPcs => Caught(req[p]).status = 500 /\ ~Caught(req[p]).detail

\* No request of u is in flight.
Quiescent(u) == \A p \in Procs : req[p].pc = "idle" \/ req[p].uid # u

\* Every issuance for u so far ran to its end and returned its pair.
AllIssued(u) ==
    \A i \in Idx(u) : hist[u][i].e = "mint" => hist[u][i].refresh \in returned

\* NoSession: no stored refresh hash.  Active: the stored value is the
\* digest of a refresh token of u that embeds u's current tokenVersion.
NoSession(row) == row.refreshToken \in {NullStr, EmptyStr}
Active(u, row) ==
    row.refreshToken = BcryptHash(generateRefreshToken(u, row.tokenVersion))

\* C24: whenever no request of a subject is in flight (and every issuance
\* ran to its end), the subject is in NoSession or in Active; and when the
\* last thing that took effect on the subject's session is a logout, the
\* stored hash is empty.
C24_WellFormedAtQuiescence ==
    \A u \in Users :
        (db[u].exists /\ Quiescent(u) /\ AllIssued(u))
            => /\ NoSession(db[u]) \/ Active(u, db[u])
               /\ (hist[u] # <<>> /\ hist[u][Len(hist[u])].e = "logout")
                      => db[u].refreshToken = EmptyStr

\* The issuances for u whose access token the gate lets through now.
AcceptedIssuances(u) ==
    {i \in Idx(u) : hist[u][i].e = "mint" /\ Gate(hist[u][i].access, FALSE).nextCalled}

\* C25: the pairs generateToken mints for one subject embed strictly
\* growing versions, concurrent calls included, so the gate accepts the
\* access token of at most one issuance at a time.
C25_VersionsNeverShared ==
    \A u \in Users :
        /\ \A i, j \in Idx(u) :
              (i < j /\ hist[u][i].e = "mint" /\ hist[u][j].e = "mint")
                  => hist[u][i].access.of.ver < hist[u][j].access.of.ver
        /\ Cardinality(AcceptedIssuances(u)) <= 1

\* C25 witness: two generateToken calls for one subject are both between
\* their updates, hold pairs of different versions, and the gate accepts
\* the access token of exactly one of them.
C25_Witness ==
    \E u \in Subjects : \E p, q \in Procs :
        /\ p # q
        /\ req[p].pc = "gen_hash" /\ req[p].uid = u
        /\ req[q].pc = "gen_hash" /\ req[q].uid = u
        /\ req[p].accessToken.of.ver < req[q].accessToken.of.ver
        /\ ~Gate(req[p].accessToken, FALSE).nextCalled
        /\ Gate(req[q].accessToken, FALSE).nextCalled
        /\ Cardinality(AcceptedIssuances(u)) = 1

\* p's generateToken call ends in its error outcome in this step.
FailedIssuance(p) ==
    /\ req[p].pc \in {"gen_inc", "gen_hash"}
    /\ req'[p].pc = "idle"
    /\ returned' = returned

\* The tokenVersion of p's subject when p called generateToken (no other
\* request of the subject being in flight): the one before p's increment.
VersionAtCall(p) ==
    IF req[p].pc = "gen_hash" THEN req[p].refreshToken.of.ver - 1 ELSE db[req[p].uid].tokenVersion

\* The access tokens of p's subject that the gate let through when p
\* called generateToken.
ValidAtCall(p) ==
    {t \in returned : /\ t.of.secret = "ACCESS" /\ t.of.uid = req[p].uid
                      /\ t.of.ver = VersionAtCall(p)
                      /\ GateFinds(db[req[p].uid])}

\* C26: when generateToken ends in "Error in generating token", the
\* subject's tokenVersion and stored refresh hash are what they were when
\* it was called, and the access tokens valid then still pass the gate.
C26_FailedIssuanceChangesNothing ==
    [][\A p \in Procs :
          (FailedIssuance(p) /\ Alone(p, req[p].uid))
              => /\ db'[req[p].uid].tokenVersion = VersionAtCall(p)
                 /\ db'[req[p].uid].refreshToken = db[req[p].uid].refreshToken
                 /\ \A t \in ValidAtCall(p) : (Gate(t, FALSE).nextCalled)']_vars

\* p, a login or refreshAccessToken request, takes a step outside
\* generateToken: it arrives, runs its checks, or is answered.
CheckStep(p) ==
    /\ req[p].route \in {"login", "refresh"} \/ req'[p].route \in {"login", "refresh"}
    /\ req[p].pc \notin {"gen_inc", "gen_hash"}
    /\ req'[p] # req[p]

\* C27: generateToken is reached only by a request that was not answered,
\* and no step of a login or refreshAccessToken request outside
\* generateToken writes: a login rejected for unknown user, wrong password
\* or deactivated account and a refresh rejected for any reason leave
\* every tokenVersion and stored refresh hash as they were.
C27_RejectedRequestsChangeNothing ==
    /\ [](\A p \in Procs : req[p].pc \in {"gen_inc", "gen_hash"} => req[p].status = 0)
    /\ [](\A u \in Subjects : \A pwOk \in BOOLEAN :
            LET a == loginChecks([IdleReq EXCEPT !.route = "login", !.uid = u, !.pwOk = pwOk], db[u])
            IN  a.status # 0 => a.pc = "done")
    /\ [](\A tok \in Presentable : \A expired \in BOOLEAN :
            RefreshAnswer(tok, expired).status # 0 => RefreshAnswer(tok, expired).pc = "done")
    /\ [][\A p \in Procs :
            CheckStep(p) => \A u \in Users : /\ db'[u].tokenVersion = db[u].tokenVersion
                                             /\ db'[u].refreshToken = db[u].refreshToken]_vars

\* C27 witness: a refresh request presenting the session's refresh token
\* has read the store and is about to be answered 401 "revoked", while a
\* login with a wrong password is answered 401; the session is in place.
C27_Witness ==
    \E p \in Procs :
        LET u == req[p].uid
        IN  /\ req[p].pc = "rf_find" /\ ~req[p].raced
            /\ refreshChecks(req[p], db[u]).msg = "Refresh token has been revoked"
            /\ loginChecks([IdleReq EXCEPT !.route = "login", !.uid = u], db[u]).status = 401
            /\ db[u].refreshToken = BcryptHash(SessionOf(u).refresh)
            /\ db[u].tokenVersion = SessionOf(u).refresh.of.ver

\* p's admin handler writes in this step.
AdminWrite(p) == req[p].pc \in {"sd_update", "cr_tx"} /\ req'[p] # req[p]

\* The administrators' access tokens the gate and isAdmin let through now.
AdminTokens ==
    {tok \in returned : /\ tok.of.secret = "ACCESS"
                        /\ Gate(tok, FALSE).nextCalled
                        /\ Gate(tok, FALSE).reqUser.role = "ADMIN"}

\* C28: softDeleteUser and changeUserRole called by an administrator on
\* the administrator's own id answer 400 and go no further; no request
\* inside either handler targets its own caller, and no write of either
\* handler changes the deletedAt or the role of the administrator who
\* made the request.
C28_AdminSelfProtection ==
    /\ [](\A tok \in AdminTokens : \A role \in AskedRoles :
            /\ softDeleteEntry(tok, FALSE, tok.of.uid).pc = "done"
            /\ softDeleteEntry(tok, FALSE, tok.of.uid).status = 400
            /\ changeRoleEntry(tok, FALSE, tok.of.uid, role).pc = "done"
            /\ changeRoleEntry(tok, FALSE, tok.of.uid, role).status = 400)
    /\ [](\A p \in Procs : req[p].pc \in HandlerPcs => req[p].target # req[p].reqUser.id)
    /\ [][\A p \in Procs :
            AdminWrite(p) => /\ db'[req[p].reqUser.id].deletedAt = db[req[p].reqUser.id].deletedAt
                             /\ db'[req[p].reqUser.id].role = db[req[p].reqUser.id].role]_vars

\* C28 witness: an administrator who has soft-deleted a subject asks to
\* delete its own account and is answered 400.
C28_Witness ==
    \E tok \in AdminTokens : \E u \in Subjects :
        /\ db[u].deletedAt
        /\ softDeleteEntry(tok, FALSE, tok.of.uid).msg = "Cannot delete your own account"
        /\ changeRoleEntry(tok, FALSE, tok.of.uid, "PATIENT").msg = "Cannot change your own role"
        /\ ~db[tok.of.uid].deletedAt /\ db[tok.of.uid].role = "ADMIN"

\* C29: the public signup never creates a user whose role is ADMIN, and
\* every user with role ADMIN has an admin profile record.
C29_AdminOnlyByAdminPaths ==
    /\ [][\A u \in Subjects : SignupCreates(u) => db'[u].role # "ADMIN"]_vars
    /\ [](\A u \in Users : db[u].exists /\ db[u].role = "ADMIN" => db[u].admin)

\* C30: a profile handler is over after exactly one call of res.json, and
\* a request that has sent its response makes no store access and no other
\* response write; the gate sends a response or calls next(), never both.
C30_OneResponsePerRequest ==
    /\ \A p \in Procs :
          /\ req[p].pc = "pf_end" => req[p].writes = 1
          /\ req[p].pc \in {"pf_find", "pf_ok", "pf_catch"} => req[p].sent = 0
          /\ ~req[p].storeAfterSend
    /\ \A tok \in Presentable, expired \in BOOLEAN :
          LET g == Gate(tok, expired) IN g.nextCalled <=> g.status = 0

====
